---- MODULE Spec2Model ----
(***************************************************************************)
(* Log-Analytics-Go-Kafka: the batch assembler (LogProcessorService,       *)
(* internal/handlers/log.go) and the alert evaluation engine (AlertService *)
(* with the alert repository), as state machines.                          *)
(*                                                                         *)
(* SpecAssembler runs one partition worker (ConsumeClaim) against the logs *)
(* table and SpecWorkers two of them; SpecWindow adds the wall clock to    *)
(* one worker. SpecAlerts runs the single alert checker interleaved with   *)
(* the API's acknowledge / resolve / enable requests, SpecRuleEdits with   *)
(* the API's rule edits, SpecChecker with its ticker and the shutdown of   *)
(* the api-server, SpecResolve with resolve requests over passing time.    *)
(***************************************************************************)
EXTENDS Integers, Sequences, FiniteSets, TLC

\* ------------------------------------------------------------------ bounds

\* s.batchSize (constants.DefaultBatchSize = 20 in the program), scaled down.
BatchSize == 2
\* Messages delivered over the partition claims.
MaxMsgs == 4
\* Rows the alerts table may hold.
MaxAlerts == 2
\* Last instant of the wall clock.
MaxTime == 3
\* rule.TimeWindow of the model's rules, in clock units.
TimeWindow == 1

\* CreateInBatches(logs, 100): rows per INSERT statement.
CreateInBatchesSize == 100

\* --------------------------------------------------------------- variables

VARIABLES
    \* batch assembler, one entry per partition claim
    delivered,    \* messages read from claim.Messages(): TRUE = payload unmarshals
    logTimes,     \* log.Timestamp and log.CreatedAt of each message after unmarshalling
    batch,        \* the local slice `batch`
    marked,       \* offsets passed to session.MarkMessage
    timer,        \* the local time.Timer
    sessionDone,  \* session.Context() is cancelled
    pc,           \* position of ConsumeClaim
    flushes,      \* history of the processBatch calls
    logsTable,    \* rows of the logs table
    \* log processor process
    claimStart,   \* offset of the first message of the running ConsumeClaim call
    procCtxDone,  \* the ctx of LogProcessorService.Start is cancelled
    procPc,       \* position of LogProcessorService.Start / main
    \* alert engine
    now,          \* time.Now()
    rules,        \* alert_rules table
    alerts,       \* alerts table, row i has id i
    evCtxDone,    \* the ctx of StartAlertChecker is cancelled
    tickPending,  \* ticker.C holds a tick
    evPc,         \* position of StartAlertChecker / CheckAlertRules / evaluateRule
    evRules,      \* `rules` slice still to range over
    evRule,       \* `rule` under evaluation
    evResult,     \* `result`
    evErr,        \* `err` returned by evaluateRule to the loop of CheckAlertRules
    evActive,     \* `activeAlerts` still to range over
    checkErr,     \* `err` returned by CheckAlertRules to StartAlertChecker
    evLog,        \* what the latest evaluateRule call of the running cycle did
    \* a second evaluator instance (another api-server process on the same database)
    peerPc,       \* position of its evaluateRule call
    peerRule,     \* its `rule`
    peerResult,   \* its `result`
    \* migration runner
    migTable,     \* rows of the migrations table
    migExecuted,  \* how often the statements of each migration file were executed
    migPc,        \* position of RunMigrations
    migIdx,       \* loop index `i` of RunMigrations (1-based)
    migApplied,   \* the map `applied`
    migRuns       \* runs of the migration runner so far

assemblerVars ==
    <<delivered, logTimes, batch, marked, timer, sessionDone, pc, flushes, logsTable>>
alertVars ==
    <<now, rules, alerts, evCtxDone, tickPending, evPc, evRules, evRule, evResult,
      evErr, evActive, checkErr, evLog>>
processVars == <<claimStart, procCtxDone, procPc>>
peerVars == <<peerPc, peerRule, peerResult>>
migrationVars == <<migTable, migExecuted, migPc, migIdx, migApplied, migRuns>>
\* What a step of a ConsumeClaim worker, and a step of the alert checker or of
\* the alert API, leaves alone.
outsideClaim == <<processVars, alertVars, peerVars, migrationVars>>
outsideChecker == <<assemblerVars, processVars, peerVars, migrationVars>>
vars == <<delivered, logTimes, batch, marked, timer, sessionDone, pc, flushes, logsTable,
          claimStart, procCtxDone, procPc,
          now, rules, alerts, evCtxDone, tickPending, evPc, evRules, evRule, evResult,
          evErr, evActive, checkErr, evLog, peerPc, peerRule, peerResult,
          migTable, migExecuted, migPc, migIdx, migApplied, migRuns>>

\* ------------------------------------------------------------------ helpers

Partitions == {0, 1}
\* The partition whose worker SpecAssembler runs.
ClaimedPartitions == {0}

Range(s) == {s[i] : i \in 1..Len(s)}

\* A log record is identified by the partition and offset of its message.
Record(p, off) == [partition |-> p, offset |-> off]

\* ========================================================= batch assembler

\* gorm CreateInBatches: the rows go out in chunks of CreateInBatchesSize, all
\* inside gorm's default transaction (gorm.Config leaves SkipDefaultTransaction
\* unset), so a failing chunk rolls the earlier ones back.
NumChunks(logs) == (Len(logs) + CreateInBatchesSize - 1) \div CreateInBatchesSize

\* Mutant: the rows are inserted one statement at a time without a transaction,
\* and the error arrives at the last row.
CreateLogBatchNoTx(ctxDone, table, logs, failAt) ==
    IF Len(logs) = 0 THEN [err |-> FALSE, table |-> table]
    ELSE IF ctxDone THEN [err |-> TRUE, table |-> table]
    ELSE IF failAt > 0
         THEN [err |-> TRUE, table |-> table \o SubSeq(logs, 1, Len(logs) - 1)]
         ELSE [err |-> FALSE, table |-> table \o logs]

\* GormLogRepository.CreateLogBatch. ctxDone: the context handed in is already
\* cancelled, and database/sql refuses to begin the transaction. failAt = 0: no
\* statement fails; failAt = k: the k-th chunk's INSERT fails.
CreateLogBatch(ctxDone, table, logs, failAt) ==
    IF Len(logs) = 0 THEN [err |-> FALSE, table |-> table]
    ELSE IF ctxDone THEN [err |-> TRUE, table |-> table]
    ELSE IF failAt > 0 THEN [err |-> TRUE, table |-> table]
    ELSE [err |-> FALSE, table |-> table \o logs]

\* LogHandler.HandleLogBatch: stores the batch, logs, passes the error on.
HandleLogBatch(ctxDone, table, logs, failAt) ==
    CreateLogBatch(ctxDone, table, logs, failAt)

\* LogProcessorService.processBatch.
processBatch(ctxDone, table, logs, failAt) ==
    HandleLogBatch(ctxDone, table, logs, failAt)

\* Mutant: the full-batch test is > instead of >=.
BatchFullStrict(b) == Len(b) > BatchSize

\* `len(batch) >= s.batchSize`
BatchFull(b) == Len(b) >= BatchSize

\* Mutant: the new record goes to the front of the slice.
AppendFront(b, rec) == <<rec>> \o b

\* `batch = append(batch, &log)`
AppendLog(b, rec) == Append(b, rec)

\* Mutant: a message that fails to unmarshal is buffered all the same.
UnmarshalAlways(ok) == TRUE

\* json.Unmarshal(message.Value, &log) succeeded.
Unmarshal(ok) == ok

\* timer.Reset(s.batchTimeout). On a timer whose tick is still unread in timer.C
\* the outcome depends on the Go release the program is built with: before 1.23
\* the stale tick stays in the channel, from 1.23 on it is discarded.
ResetOutcomes(t) == IF t = "fired" THEN {"armed", "fired"} ELSE {"armed"}

\* One processBatch call of worker w, as recorded in the history.
FlushEntry(w, res, trigger) ==
    [recs |-> batch[w], ok |-> ~res.err, trigger |-> trigger, at |-> Len(delivered[w])]

\* The time fields a payload can carry: 0 is the zero time.Time (field absent),
\* otherwise a time up to the present.
PayloadTimes(t) == 0..t

\* ConsumeClaim, `if log.Timestamp.IsZero()` / `if log.CreatedAt.IsZero()`: a
\* zero field becomes time.Now(), a set one is kept.
StampTimes(ts, created, t) ==
    [Timestamp |-> IF ts = 0 THEN t ELSE ts, CreatedAt |-> IF created = 0 THEN t ELSE created]

\* The time fields recorded for a payload that does not unmarshal.
NoTimes == [Timestamp |-> 0, CreatedAt |-> 0]

\* Mutant: the buffer is a field shared by the workers instead of a local of
\* ConsumeClaim; every worker appends to the one slice.
ReceiveMessageSharedBatch(w) ==
    /\ pc[w] = "select"
    /\ Len(delivered[0]) + Len(delivered[1]) < MaxMsgs
    /\ \E ok \in BOOLEAN, ts \in PayloadTimes(now), created \in PayloadTimes(now) :
         LET off == Len(delivered[w]) IN
         /\ delivered' = [delivered EXCEPT ![w] = Append(@, ok)]
         /\ marked' = [marked EXCEPT ![w] = @ \cup {off}]
         /\ IF ~Unmarshal(ok)
            THEN /\ logTimes' = [logTimes EXCEPT ![w] = Append(@, NoTimes)]
                 /\ UNCHANGED <<batch, pc>>
            ELSE LET b == AppendLog(batch[0], Record(w, off)) IN
                 /\ logTimes' = [logTimes EXCEPT ![w] = Append(@, StampTimes(ts, created, now))]
                 /\ batch' = [batch EXCEPT ![0] = b]
                 /\ pc' = [pc EXCEPT ![w] = IF BatchFull(b) THEN "flush_size" ELSE "select"]
    /\ UNCHANGED <<timer, sessionDone, flushes, logsTable>>
    /\ UNCHANGED outsideClaim

\* Mutant: processBatch runs in a goroutine of its own, so the worker goes on
\* receiving and appending while a flush is in flight.
ReceiveMessageDuringFlush(w) ==
    /\ pc[w] \in {"select", "flush_size", "flush_timer"}
    /\ Len(delivered[0]) + Len(delivered[1]) < MaxMsgs
    /\ \E ok \in BOOLEAN, ts \in PayloadTimes(now), created \in PayloadTimes(now) :
         LET off == Len(delivered[w]) IN
         /\ delivered' = [delivered EXCEPT ![w] = Append(@, ok)]
         /\ marked' = [marked EXCEPT ![w] = @ \cup {off}]
         /\ IF ~Unmarshal(ok)
            THEN /\ logTimes' = [logTimes EXCEPT ![w] = Append(@, NoTimes)]
                 /\ UNCHANGED <<batch, pc>>
            ELSE LET b == AppendLog(batch[w], Record(w, off)) IN
                 /\ logTimes' = [logTimes EXCEPT ![w] = Append(@, StampTimes(ts, created, now))]
                 /\ batch' = [batch EXCEPT ![w] = b]
                 /\ pc' = [pc EXCEPT ![w] = IF pc[w] = "select" /\ BatchFull(b)
                                            THEN "flush_size" ELSE @]
    /\ UNCHANGED <<timer, sessionDone, flushes, logsTable>>
    /\ UNCHANGED outsideClaim

\* ConsumeClaim, `case message := <-claim.Messages()`.
ReceiveMessage(w) ==
    /\ pc[w] = "select"
    /\ Len(delivered[0]) + Len(delivered[1]) < MaxMsgs
    /\ \E ok \in BOOLEAN, ts \in PayloadTimes(now), created \in PayloadTimes(now) :
         LET off == Len(delivered[w]) IN
         /\ delivered' = [delivered EXCEPT ![w] = Append(@, ok)]
         /\ marked' = [marked EXCEPT ![w] = @ \cup {off}]
         /\ IF ~Unmarshal(ok)
            THEN /\ logTimes' = [logTimes EXCEPT ![w] = Append(@, NoTimes)]
                 /\ UNCHANGED <<batch, pc>>
            ELSE LET b == AppendLog(batch[w], Record(w, off)) IN
                 /\ logTimes' = [logTimes EXCEPT ![w] = Append(@, StampTimes(ts, created, now))]
                 /\ batch' = [batch EXCEPT ![w] = b]
                 /\ pc' = [pc EXCEPT ![w] = IF BatchFull(b) THEN "flush_size" ELSE "select"]
    /\ UNCHANGED <<timer, sessionDone, flushes, logsTable>>
    /\ UNCHANGED outsideClaim

\* Mutant: a size-triggered flush that fails keeps the batch for a retry.
FlushSizeKeepsOnFailure(w) ==
    /\ pc[w] = "flush_size"
    /\ \E failAt \in 0..NumChunks(batch[w]) :
         LET res == processBatch(sessionDone[w], logsTable, batch[w], failAt) IN
         /\ logsTable' = res.table
         /\ flushes' = [flushes EXCEPT ![w] = Append(@, FlushEntry(w, res, "size"))]
         /\ batch' = [batch EXCEPT ![w] = IF res.err THEN @ ELSE <<>>]
    /\ \E t \in ResetOutcomes(timer[w]) : timer' = [timer EXCEPT ![w] = t]
    /\ pc' = [pc EXCEPT ![w] = "select"]
    /\ UNCHANGED <<delivered, logTimes, marked, sessionDone>>
    /\ UNCHANGED outsideClaim

\* ConsumeClaim, the size-triggered flush: processBatch, batch[:0], timer.Reset.
FlushSize(w) ==
    /\ pc[w] = "flush_size"
    /\ \E failAt \in 0..NumChunks(batch[w]) :
         LET res == processBatch(sessionDone[w], logsTable, batch[w], failAt) IN
         /\ logsTable' = res.table
         /\ flushes' = [flushes EXCEPT ![w] = Append(@, FlushEntry(w, res, "size"))]
    /\ batch' = [batch EXCEPT ![w] = <<>>]
    /\ \E t \in ResetOutcomes(timer[w]) : timer' = [timer EXCEPT ![w] = t]
    /\ pc' = [pc EXCEPT ![w] = "select"]
    /\ UNCHANGED <<delivered, logTimes, marked, sessionDone>>
    /\ UNCHANGED outsideClaim

\* The runtime: the batch timeout elapses and a tick is sent on timer.C.
TimerExpire(w) ==
    /\ timer[w] = "armed"
    /\ timer' = [timer EXCEPT ![w] = "fired"]
    /\ UNCHANGED <<delivered, logTimes, batch, marked, sessionDone, pc, flushes, logsTable>>
    /\ UNCHANGED outsideClaim

\* Mutant: the timer case with an empty batch reads the tick and leaves the
\* timer unarmed (timer.Reset only after a flush).
TimerCaseEmptyNoReset(w) ==
    /\ pc[w] = "select"
    /\ timer[w] = "fired"
    /\ Len(batch[w]) = 0
    /\ timer' = [timer EXCEPT ![w] = "read"]
    /\ UNCHANGED <<delivered, logTimes, batch, marked, sessionDone, pc, flushes, logsTable>>
    /\ UNCHANGED outsideClaim

\* Mutant: the timer case calls processBatch without the len(batch) > 0 test.
TimerCaseEmptyFlushes(w) ==
    /\ pc[w] = "select"
    /\ timer[w] = "fired"
    /\ Len(batch[w]) = 0
    /\ \E failAt \in 0..NumChunks(batch[w]) :
         LET res == processBatch(sessionDone[w], logsTable, batch[w], failAt) IN
         /\ logsTable' = res.table
         /\ flushes' = [flushes EXCEPT ![w] = Append(@, FlushEntry(w, res, "timer"))]
    /\ timer' = [timer EXCEPT ![w] = "armed"]
    /\ UNCHANGED <<delivered, logTimes, batch, marked, sessionDone, pc>>
    /\ UNCHANGED outsideClaim

\* ConsumeClaim, `case <-timer.C` with an empty batch: only timer.Reset.
TimerCaseEmpty(w) ==
    /\ pc[w] = "select"
    /\ timer[w] = "fired"
    /\ Len(batch[w]) = 0
    /\ timer' = [timer EXCEPT ![w] = "armed"]
    /\ UNCHANGED <<delivered, logTimes, batch, marked, sessionDone, pc, flushes, logsTable>>
    /\ UNCHANGED outsideClaim

\* ConsumeClaim, `case <-timer.C` with a non-empty batch: the tick is read.
TimerCase(w) ==
    /\ pc[w] = "select"
    /\ timer[w] = "fired"
    /\ Len(batch[w]) > 0
    /\ timer' = [timer EXCEPT ![w] = "read"]
    /\ pc' = [pc EXCEPT ![w] = "flush_timer"]
    /\ UNCHANGED <<delivered, logTimes, batch, marked, sessionDone, flushes, logsTable>>
    /\ UNCHANGED outsideClaim

\* Mutant: the timer-triggered flush leaves the batch as it is (no batch[:0]).
FlushTimerKeepsBatch(w) ==
    /\ pc[w] = "flush_timer"
    /\ \E failAt \in 0..NumChunks(batch[w]) :
         LET res == processBatch(sessionDone[w], logsTable, batch[w], failAt) IN
         /\ logsTable' = res.table
         /\ flushes' = [flushes EXCEPT ![w] = Append(@, FlushEntry(w, res, "timer"))]
    /\ timer' = [timer EXCEPT ![w] = "armed"]
    /\ pc' = [pc EXCEPT ![w] = "select"]
    /\ UNCHANGED <<delivered, logTimes, batch, marked, sessionDone>>
    /\ UNCHANGED outsideClaim

\* ConsumeClaim, the timer-triggered flush: processBatch, batch[:0], timer.Reset.
FlushTimer(w) ==
    /\ pc[w] = "flush_timer"
    /\ \E failAt \in 0..NumChunks(batch[w]) :
         LET res == processBatch(sessionDone[w], logsTable, batch[w], failAt) IN
         /\ logsTable' = res.table
         /\ flushes' = [flushes EXCEPT ![w] = Append(@, FlushEntry(w, res, "timer"))]
    /\ batch' = [batch EXCEPT ![w] = <<>>]
    /\ timer' = [timer EXCEPT ![w] = "armed"]
    /\ pc' = [pc EXCEPT ![w] = "select"]
    /\ UNCHANGED <<delivered, logTimes, marked, sessionDone>>
    /\ UNCHANGED outsideClaim

\* The session ends (shutdown signal or rebalance): session.Context() is cancelled.
CancelSession(w) ==
    /\ ~sessionDone[w]
    /\ pc[w] # "returned"
    /\ sessionDone' = [sessionDone EXCEPT ![w] = TRUE]
    /\ UNCHANGED <<delivered, logTimes, batch, marked, timer, pc, flushes, logsTable>>
    /\ UNCHANGED outsideClaim

\* ConsumeClaim, `case <-session.Context().Done()` with an empty batch: return nil.
DoneCaseEmpty(w) ==
    /\ pc[w] = "select"
    /\ sessionDone[w]
    /\ Len(batch[w]) = 0
    /\ pc' = [pc EXCEPT ![w] = "returned"]
    /\ timer' = [timer EXCEPT ![w] = "stopped"]
    /\ UNCHANGED <<delivered, logTimes, batch, marked, sessionDone, flushes, logsTable>>
    /\ UNCHANGED outsideClaim

\* ConsumeClaim, `case <-session.Context().Done()` with a non-empty batch.
DoneCase(w) ==
    /\ pc[w] = "select"
    /\ sessionDone[w]
    /\ Len(batch[w]) > 0
    /\ pc' = [pc EXCEPT ![w] = "flush_final"]
    /\ UNCHANGED <<delivered, logTimes, batch, marked, timer, sessionDone, flushes, logsTable>>
    /\ UNCHANGED outsideClaim

\* Mutant: the buffer outlives the ConsumeClaim call (a field of the service
\* instead of a local), so the final flush leaves its records in place.
FlushFinalKeepsBatch(w) ==
    /\ pc[w] = "flush_final"
    /\ \E failAt \in 0..NumChunks(batch[w]) :
         LET res == processBatch(sessionDone[w], logsTable, batch[w], failAt) IN
         /\ logsTable' = res.table
         /\ flushes' = [flushes EXCEPT ![w] = Append(@, FlushEntry(w, res, "final"))]
    /\ timer' = [timer EXCEPT ![w] = "stopped"]
    /\ pc' = [pc EXCEPT ![w] = "returned"]
    /\ UNCHANGED <<delivered, logTimes, batch, marked, sessionDone>>
    /\ UNCHANGED outsideClaim

\* ConsumeClaim, the final flush: processBatch with the session context, then
\* return nil; the deferred timer.Stop runs and the local batch is gone.
FlushFinal(w) ==
    /\ pc[w] = "flush_final"
    /\ \E failAt \in 0..NumChunks(batch[w]) :
         LET res == processBatch(sessionDone[w], logsTable, batch[w], failAt) IN
         /\ logsTable' = res.table
         /\ flushes' = [flushes EXCEPT ![w] = Append(@, FlushEntry(w, res, "final"))]
    /\ batch' = [batch EXCEPT ![w] = <<>>]
    /\ timer' = [timer EXCEPT ![w] = "stopped"]
    /\ pc' = [pc EXCEPT ![w] = "returned"]
    /\ UNCHANGED <<delivered, logTimes, marked, sessionDone>>
    /\ UNCHANGED outsideClaim

ConsumeClaim(w) ==
    \/ ReceiveMessage(w)
    \/ FlushSize(w)
    \/ TimerExpire(w)
    \/ TimerCaseEmpty(w)
    \/ TimerCase(w)
    \/ FlushTimer(w)
    \/ CancelSession(w)
    \/ DoneCaseEmpty(w)
    \/ DoneCase(w)
    \/ FlushFinal(w)

InitAssembler ==
    /\ delivered = [w \in Partitions |-> <<>>]
    /\ logTimes = [w \in Partitions |-> <<>>]
    /\ batch = [w \in Partitions |-> <<>>]
    /\ marked = [w \in Partitions |-> {}]
    /\ timer = [w \in Partitions |-> "armed"]
    /\ sessionDone = [w \in Partitions |-> FALSE]
    /\ pc = [w \in Partitions |-> "select"]
    /\ flushes = [w \in Partitions |-> <<>>]
    /\ logsTable = <<>>

\* ============================================================ alert engine

RuleIDs == {1, 2}

\* The threshold every rule of the model carries.
Threshold == 2

\* The aggregates a rule query returns: below, at and above the threshold. Once
\* the alerts table holds MaxAlerts rows the logs only yield aggregates below it.
Aggregates(tbl) ==
    IF Len(tbl) < MaxAlerts THEN (Threshold - 1)..(Threshold + 1) ELSE {Threshold - 1}

\* What db.QueryRowContext(ctx, query).Scan(&result) can yield: an aggregate
\* in `result`, sql.ErrNoRows, a NULL aggregate (no value over an empty
\* window), or another error; with ctx cancelled only the error.
QueryResults(tbl, ctxDone) ==
    IF ctxDone THEN {[err |-> "error", result |-> 0]}
    ELSE {[err |-> "nil", result |-> v] : v \in Aggregates(tbl)}
            \cup {[err |-> e, result |-> 0] : e \in {"ErrNoRows", "NULL", "error"}}

\* `errors.Is(err, sql.ErrNoRows)`
NoRows(err) == err = "ErrNoRows"

\* The rules the API edits, and the values it sets.
EditableRules == {1}
Severities == {"low", "high"}
Thresholds == {Threshold, Threshold + 1}

\* The timestamp and created_at columns of a row of the logs table.
TimesOf(rec) == logTimes[rec.partition][rec.offset + 1]

\* buildQuery: the start of the trailing window, time.Now() minus
\* rule.TimeWindow, which the query compares with a column of logs.
buildQuery(t) == t - TimeWindow

\* The rows the WHERE clause of buildQuery's query selects at time t:
\* created_at >= window start.
QueryRows(tbl, t) == {i \in 1..Len(tbl) : TimesOf(tbl[i]).CreatedAt >= buildQuery(t)}

\* Placeholder for the locals of evaluateRule outside a rule's evaluation.
NoRule == [ID |-> 0, Enabled |-> FALSE, Threshold |-> 0, Severity |-> "low"]

\* Mutant: the alert carries the threshold instead of the aggregate.
NewAlertThresholdValue(id, rule, result) ==
    [ID |-> id, RuleID |-> rule.ID, Severity |-> rule.Severity, Value |-> rule.Threshold,
     Status |-> "active", ResolvedAt |-> 0, AcknowledgedAt |-> 0]

\* models.Alert as built by evaluateRule. ResolvedAt and AcknowledgedAt are
\* nullable: 0 is NULL, otherwise the time.
NewAlert(id, rule, result) ==
    [ID |-> id, RuleID |-> rule.ID, Severity |-> rule.Severity, Value |-> result,
     Status |-> "active", ResolvedAt |-> 0, AcknowledgedAt |-> 0]

\* Mutant: the alerts table has a unique key over (rule_id, status = active).
CreateAlertUnique(tbl, rule, result) ==
    IF \E i \in 1..Len(tbl) : tbl[i].RuleID = rule.ID /\ tbl[i].Status = "active"
    THEN tbl
    ELSE Append(tbl, NewAlert(Len(tbl) + 1, rule, result))

\* GormAlertRepository.CreateAlert: INSERT, the id is the next auto-increment.
CreateAlert(tbl, rule, result) == Append(tbl, NewAlert(Len(tbl) + 1, rule, result))

\* Mutant: the filter takes every alert of the rule that is not resolved, so an
\* acknowledged alert counts like an active one.
GetAlertsNotResolved(tbl, ruleID) ==
    LET hit == SelectSeq(tbl, LAMBDA a : a.RuleID = ruleID /\ a.Status # "resolved")
    IN [i \in 1..Len(hit) |-> hit[Len(hit) + 1 - i]]

\* GormAlertRepository.GetAlerts with filter {RuleID, Status: "active"}:
\* WHERE status = ? AND rule_id = ? ORDER BY created_at DESC.
GetAlerts(tbl, ruleID) ==
    LET hit == SelectSeq(tbl, LAMBDA a : a.RuleID = ruleID /\ a.Status = "active")
    IN [i \in 1..Len(hit) |-> hit[Len(hit) + 1 - i]]

\* Mutant: the UPDATE sets the status and leaves resolved_at alone.
ResolveAlertStatusOnly(tbl, id, t) ==
    [i \in 1..Len(tbl) |->
        IF tbl[i].ID = id THEN [tbl[i] EXCEPT !.Status = "resolved"] ELSE tbl[i]]

\* GormAlertRepository.ResolveAlert at time t:
\* UPDATE alerts SET status = 'resolved', resolved_at = now WHERE id = ?
ResolveAlert(tbl, id, t) ==
    [i \in 1..Len(tbl) |->
        IF tbl[i].ID = id THEN [tbl[i] EXCEPT !.Status = "resolved", !.ResolvedAt = t]
        ELSE tbl[i]]

\* Mutant: acknowledging puts the alert back to active.
AcknowledgeAlertReopens(tbl, id, t) ==
    [i \in 1..Len(tbl) |->
        IF tbl[i].ID = id THEN [tbl[i] EXCEPT !.Status = "active", !.AcknowledgedAt = t]
        ELSE tbl[i]]

\* GormAlertRepository.AcknowledgeAlert at time t:
\* UPDATE alerts SET status = 'acknowledged', acknowledged_at = now WHERE id = ?
AcknowledgeAlert(tbl, id, t) ==
    [i \in 1..Len(tbl) |->
        IF tbl[i].ID = id THEN [tbl[i] EXCEPT !.Status = "acknowledged", !.AcknowledgedAt = t]
        ELSE tbl[i]]

\* GormAlertRuleRepository.GetAlertRules: every row of alert_rules.
GetAlertRules(rs) == [i \in 1..Cardinality(RuleIDs) |-> rs[i]]

\* Mutant: the comparison is > instead of >=.
ExceedsStrict(result, threshold) == result > threshold

\* `result >= rule.Threshold`
Exceeds(result, threshold) == result >= threshold

\* Mutant: the test for an existing active alert is dropped.
NoActiveAlertAlways(active) == TRUE

\* `len(activeAlerts) == 0`
NoActiveAlert(active) == Len(active) = 0

\* Whether a database call made with ctx can succeed: database/sql refuses a
\* context that is already cancelled.
DbOutcomes(ctxDone) == IF ctxDone THEN {FALSE} ELSE BOOLEAN

\* One entry of the log.
LogEntry(ruleID, what) == [rule |-> ruleID, what |-> what]

\* StartAlertChecker, `case <-ticker.C`: a tick is read and CheckAlertRules is
\* called. While ctx is live the checker sleeps in the select until a tick
\* comes; once ctx is cancelled the case can only be taken for a tick that is
\* already buffered, and the select then picks between the two ready cases.
StartCycle ==
    /\ evPc = "wait"
    /\ tickPending \/ ~evCtxDone
    /\ tickPending' = FALSE
    /\ evPc' = "fetch"
    /\ checkErr' = "nil"
    /\ UNCHANGED <<now, rules, alerts, evCtxDone, evRules, evRule, evResult, evErr,
                   evActive, evLog>>
    /\ UNCHANGED outsideChecker

\* Mutant: StartAlertChecker returns when CheckAlertRules reports an error.
FetchRulesFailureStops ==
    /\ evPc = "fetch"
    /\ \E ok \in DbOutcomes(evCtxDone) :
         IF ok THEN /\ evRules' = GetAlertRules(rules)
                    /\ evPc' = "range"
                    /\ UNCHANGED checkErr
               ELSE /\ evPc' = "stopped"
                    /\ checkErr' = "failed to get alert rules"
                    /\ UNCHANGED evRules
    /\ UNCHANGED <<now, rules, alerts, evCtxDone, tickPending, evRule, evResult, evErr,
                   evActive, evLog>>
    /\ UNCHANGED outsideChecker

\* CheckAlertRules: GetAlertRules; on failure the error is returned to the
\* checker, which logs it and goes back to the select.
FetchRules ==
    /\ evPc = "fetch"
    /\ \E ok \in DbOutcomes(evCtxDone) :
         IF ok THEN /\ evRules' = GetAlertRules(rules)
                    /\ evPc' = "range"
                    /\ UNCHANGED checkErr
               ELSE /\ evPc' = "wait"
                    /\ checkErr' = "failed to get alert rules"
                    /\ UNCHANGED evRules
    /\ UNCHANGED <<now, rules, alerts, evCtxDone, tickPending, evRule, evResult, evErr,
                   evActive, evLog>>
    /\ UNCHANGED outsideChecker

\* CheckAlertRules, `for _, rule := range rules` is exhausted: return nil.
EndCycle ==
    /\ evPc = "range"
    /\ evRules = <<>>
    /\ evPc' = "wait"
    /\ evErr' = "nil"
    /\ checkErr' = "nil"
    /\ evLog' = <<>>
    /\ UNCHANGED <<now, rules, alerts, evCtxDone, tickPending, evRules, evRule, evResult,
                   evActive>>
    /\ UNCHANGED outsideChecker

\* Mutant: CheckAlertRules hands every rule to evaluateRule, enabled or not.
RangeRuleIgnoresEnabled ==
    /\ evPc = "range"
    /\ evRules # <<>>
    /\ evRules' = Tail(evRules)
    /\ evErr' = "nil"
    /\ evRule' = Head(evRules)
    /\ evPc' = "query"
    /\ evLog' = <<>>
    /\ UNCHANGED <<now, rules, alerts, evCtxDone, tickPending, evResult, evActive, checkErr>>
    /\ UNCHANGED outsideChecker

\* CheckAlertRules, one iteration: a disabled rule is skipped, an enabled one
\* goes to evaluateRule.
RangeRule ==
    /\ evPc = "range"
    /\ evRules # <<>>
    /\ evRules' = Tail(evRules)
    /\ evErr' = "nil"
    /\ IF Head(evRules).Enabled
       THEN /\ evRule' = Head(evRules)
            /\ evPc' = "query"
       ELSE UNCHANGED <<evRule, evPc>>
    /\ evLog' = <<>>
    /\ UNCHANGED <<now, rules, alerts, evCtxDone, tickPending, evResult, evActive, checkErr>>
    /\ UNCHANGED outsideChecker

\* Mutant: CheckAlertRules returns at the first rule whose evaluation fails.
ReturnAbortsOnError(e, what) ==
    /\ evPc' = IF e = "nil" THEN "range" ELSE "wait"
    /\ evErr' = e
    /\ evLog' = Append(evLog, LogEntry(evRule.ID, what))
    /\ evRule' = NoRule
    /\ evResult' = 0

\* evaluateRule returns e to the loop of CheckAlertRules; what it did goes to
\* the log.
Return(e, what) ==
    /\ evPc' = "range"
    /\ evErr' = e
    /\ evLog' = Append(evLog, LogEntry(evRule.ID, what))
    /\ evRule' = NoRule
    /\ evResult' = 0

\* Mutant: a query without data counts as the aggregate 0 and the evaluation
\* goes on to the threshold test.
QueryRuleNoDataIsZero ==
    /\ evPc = "query"
    /\ \E res \in QueryResults(alerts, evCtxDone) :
         IF res.err \in {"ErrNoRows", "NULL"}
         THEN /\ evResult' = 0
              /\ evPc' = "get_alerts"
              /\ evLog' = Append(evLog, LogEntry(evRule.ID,
                                 IF NoRows(res.err) THEN "no_rows" ELSE "null_value"))
              /\ UNCHANGED <<evRule, evErr>>
         ELSE IF res.err # "nil" THEN Return("failed to execute alert query", "query_failed")
         ELSE /\ evResult' = res.result
              /\ evPc' = "get_alerts"
              /\ UNCHANGED <<evRule, evErr, evLog>>
    /\ UNCHANGED <<now, rules, alerts, evCtxDone, tickPending, evRules, evActive, checkErr>>
    /\ UNCHANGED outsideChecker

\* evaluateRule: the aggregate query. sql.ErrNoRows returns nil; a NULL
\* aggregate does not scan into float64 and is returned as an error like any
\* other query failure.
QueryRule ==
    /\ evPc = "query"
    /\ \E res \in QueryResults(alerts, evCtxDone) :
         IF NoRows(res.err) THEN Return("nil", "no_rows")
         ELSE IF res.err = "NULL" THEN Return("failed to execute alert query", "null_value")
         ELSE IF res.err # "nil" THEN Return("failed to execute alert query", "query_failed")
         ELSE /\ evResult' = res.result
              /\ evPc' = "get_alerts"
              /\ UNCHANGED <<evRule, evErr, evLog>>
    /\ UNCHANGED <<now, rules, alerts, evCtxDone, tickPending, evRules, evActive, checkErr>>
    /\ UNCHANGED outsideChecker

\* evaluateRule: the threshold test and GetAlerts for the rule's active alerts.
GetActiveAlerts ==
    /\ evPc = "get_alerts"
    /\ \E ok \in DbOutcomes(evCtxDone) :
         IF ~ok
         THEN Return("failed to check existing alerts", "get_failed") /\ UNCHANGED evActive
         ELSE LET active == GetAlerts(alerts, evRule.ID) IN
              IF Exceeds(evResult, evRule.Threshold)
              THEN IF NoActiveAlert(active)
                   THEN /\ evPc' = "create"
                        /\ UNCHANGED <<evRule, evResult, evErr, evActive, evLog>>
                   ELSE Return("nil", "kept") /\ UNCHANGED evActive
              ELSE /\ evActive' = active
                   /\ evPc' = "resolve"
                   /\ evLog' = Append(evLog, LogEntry(evRule.ID, "below"))
                   /\ UNCHANGED <<evRule, evResult, evErr>>
    /\ UNCHANGED <<now, rules, alerts, evCtxDone, tickPending, evRules, checkErr>>
    /\ UNCHANGED outsideChecker

\* evaluateRule: alertRepo.CreateAlert.
CreateRuleAlert ==
    /\ evPc = "create"
    /\ \E ok \in DbOutcomes(evCtxDone) :
         IF ok THEN /\ alerts' = CreateAlert(alerts, evRule, evResult)
                    /\ Return("nil", "created")
               ELSE /\ UNCHANGED alerts
                    /\ Return("failed to create alert", "create_failed")
    /\ UNCHANGED <<now, rules, evCtxDone, tickPending, evRules, evActive, checkErr>>
    /\ UNCHANGED outsideChecker

\* Mutant: the resolve loop returns the error of the first ResolveAlert call
\* that fails.
ResolveRuleAlertAborts ==
    /\ evPc = "resolve"
    /\ evActive # <<>>
    /\ \E ok \in DbOutcomes(evCtxDone) :
         IF ok THEN /\ alerts' = ResolveAlert(alerts, Head(evActive).ID, now)
                    /\ evLog' = Append(evLog, LogEntry(evRule.ID, "resolved"))
                    /\ evActive' = Tail(evActive)
                    /\ UNCHANGED <<evPc, evRule, evResult, evErr>>
               ELSE /\ UNCHANGED alerts
                    /\ evActive' = <<>>
                    /\ Return("failed to resolve alert", "resolve_failed")
    /\ UNCHANGED <<now, rules, evCtxDone, tickPending, evRules, checkErr>>
    /\ UNCHANGED outsideChecker

\* evaluateRule: `for _, alert := range activeAlerts`, one ResolveAlert call; a
\* failure is logged and the loop goes on.
ResolveRuleAlert ==
    /\ evPc = "resolve"
    /\ evActive # <<>>
    /\ \E ok \in DbOutcomes(evCtxDone) :
         IF ok THEN /\ alerts' = ResolveAlert(alerts, Head(evActive).ID, now)
                    /\ evLog' = Append(evLog, LogEntry(evRule.ID, "resolved"))
               ELSE /\ UNCHANGED alerts
                    /\ evLog' = Append(evLog, LogEntry(evRule.ID, "resolve_failed"))
    /\ evActive' = Tail(evActive)
    /\ UNCHANGED <<now, rules, evCtxDone, tickPending, evPc, evRules, evRule, evResult,
                   evErr, checkErr>>
    /\ UNCHANGED outsideChecker

\* evaluateRule: the resolve loop is exhausted, return nil.
EndResolve ==
    /\ evPc = "resolve"
    /\ evActive = <<>>
    /\ evPc' = "range"
    /\ evErr' = "nil"
    /\ evRule' = NoRule
    /\ evResult' = 0
    /\ UNCHANGED <<now, rules, alerts, evCtxDone, tickPending, evRules, evActive,
                   checkErr, evLog>>
    /\ UNCHANGED outsideChecker

\* AlertHandler.ResolveAlert: PUT /api/alerts/:id/resolve.
ApiResolveAlert ==
    /\ \E id \in 1..Len(alerts) : alerts' = ResolveAlert(alerts, id, now)
    /\ UNCHANGED <<now, rules, evCtxDone, tickPending, evPc, evRules, evRule, evResult,
                   evErr, evActive, checkErr, evLog>>
    /\ UNCHANGED outsideChecker

\* AlertHandler.AcknowledgeAlert: PUT /api/alerts/:id/acknowledge.
ApiAcknowledgeAlert ==
    /\ \E id \in 1..Len(alerts) : alerts' = AcknowledgeAlert(alerts, id, now)
    /\ UNCHANGED <<now, rules, evCtxDone, tickPending, evPc, evRules, evRule, evResult,
                   evErr, evActive, checkErr, evLog>>
    /\ UNCHANGED outsideChecker

\* PUT /api/alert-rules/:id: the API enables or disables a rule.
ApiUpdateAlertRule ==
    /\ \E r \in RuleIDs, en \in BOOLEAN :
         /\ rules[r].Enabled # en
         /\ rules' = [rules EXCEPT ![r].Enabled = en]
    /\ UNCHANGED <<now, alerts, evCtxDone, tickPending, evPc, evRules, evRule, evResult,
                   evErr, evActive, checkErr, evLog>>
    /\ UNCHANGED outsideChecker

\* PUT /api/alert-rules/:id: the API edits the severity and the threshold of a
\* rule (GormAlertRuleRepository.UpdateAlertRule saves the whole row).
ApiEditAlertRule ==
    /\ \E r \in EditableRules, sev \in Severities, th \in Thresholds :
         /\ <<rules[r].Severity, rules[r].Threshold>> # <<sev, th>>
         /\ rules' = [rules EXCEPT ![r].Severity = sev, ![r].Threshold = th]
    /\ UNCHANGED <<now, alerts, evCtxDone, tickPending, evPc, evRules, evRule, evResult,
                   evErr, evActive, checkErr, evLog>>
    /\ UNCHANGED outsideChecker

\* Mutant: every tick starts CheckAlertRules at once, in a goroutine of its
\* own, also while a cycle is running.
TickerFireStartsCycle ==
    /\ evPc \notin {"wait", "stopped"}
    /\ ~tickPending
    /\ evPc' = "fetch"
    /\ UNCHANGED <<now, rules, alerts, evCtxDone, tickPending, evRules, evRule, evResult,
                   evErr, evActive, checkErr, evLog>>
    /\ UNCHANGED outsideChecker

\* The runtime: the ticker's interval elapses while the checker is busy with a
\* cycle; the tick waits in ticker.C (capacity 1, a further tick is dropped).
TickerFire ==
    /\ evPc \notin {"wait", "stopped"}
    /\ ~tickPending
    /\ tickPending' = TRUE
    /\ UNCHANGED <<now, rules, alerts, evCtxDone, evPc, evRules, evRule, evResult,
                   evErr, evActive, checkErr, evLog>>
    /\ UNCHANGED outsideChecker

\* api-server main: the shutdown signal arrives and main calls cancel().
CancelChecker ==
    /\ ~evCtxDone
    /\ evCtxDone' = TRUE
    /\ UNCHANGED <<now, rules, alerts, tickPending, evPc, evRules, evRule, evResult,
                   evErr, evActive, checkErr, evLog>>
    /\ UNCHANGED outsideChecker

\* StartAlertChecker, `case <-ctx.Done()`: return.
StopChecker ==
    /\ evPc = "wait"
    /\ evCtxDone
    /\ evPc' = "stopped"
    /\ UNCHANGED <<now, rules, alerts, evCtxDone, tickPending, evRules, evRule, evResult,
                   evErr, evActive, checkErr, evLog>>
    /\ UNCHANGED outsideChecker

\* The wall clock advances.
ClockTick ==
    /\ now < MaxTime
    /\ now' = now + 1
    /\ UNCHANGED <<rules, alerts, evCtxDone, tickPending, evPc, evRules, evRule, evResult,
                   evErr, evActive, checkErr, evLog>>
    /\ UNCHANGED outsideChecker

InitAlerts ==
    /\ now = 1
    /\ rules = [r \in RuleIDs |->
                  [ID |-> r, Enabled |-> TRUE, Threshold |-> Threshold,
                   Severity |-> IF r = 1 THEN "high" ELSE "low"]]
    /\ alerts = <<>>
    /\ evCtxDone = FALSE
    /\ tickPending = FALSE
    /\ evPc = "wait"
    /\ evRules = <<>>
    /\ evRule = NoRule
    /\ evResult = 0
    /\ evErr = "nil"
    /\ evActive = <<>>
    /\ checkErr = "nil"
    /\ evLog = <<>>

\* ==================================================== log processor process

\* The signal goroutine of Start calls cancel() (log.go 362-370); the contexts
\* of the running session derive from ctx.
ShutdownSignal ==
    /\ procPc = "consume"
    /\ ~procCtxDone
    /\ procCtxDone' = TRUE
    /\ sessionDone' = [w \in Partitions |-> w \in ClaimedPartitions \/ sessionDone[w]]
    /\ UNCHANGED <<delivered, logTimes, batch, marked, timer, pc, flushes, logsTable,
                   claimStart, procPc>>
    /\ UNCHANGED <<alertVars, peerVars, migrationVars>>

\* A new session: ConsumeClaim is called again for every claimed partition,
\* with its locals `batch` and `timer` made anew (log.go 393-394).
NewSession ==
    /\ batch' = [w \in Partitions |-> IF w \in ClaimedPartitions THEN <<>> ELSE batch[w]]
    /\ timer' = [w \in Partitions |-> IF w \in ClaimedPartitions THEN "armed" ELSE timer[w]]
    /\ pc' = [w \in Partitions |-> IF w \in ClaimedPartitions THEN "select" ELSE pc[w]]
    /\ sessionDone' = [w \in Partitions |-> w \notin ClaimedPartitions /\ sessionDone[w]]
    /\ claimStart' = [w \in Partitions |->
                        IF w \in ClaimedPartitions THEN Len(delivered[w]) ELSE claimStart[w]]

\* Mutant: the loop of Start looks only at the error of Consume.
ConsumeReturnsIgnoresCtx ==
    /\ procPc = "consume"
    /\ \A w \in ClaimedPartitions : pc[w] = "returned"
    /\ \E err \in {"nil", "error"} :
         IF err # "nil"
           THEN /\ procPc' = "os.Exit(1)"
                /\ UNCHANGED <<batch, timer, pc, sessionDone, claimStart>>
           ELSE /\ procPc' = "consume"
                /\ NewSession
    /\ UNCHANGED <<delivered, logTimes, marked, flushes, logsTable, procCtxDone>>
    /\ UNCHANGED <<alertVars, peerVars, migrationVars>>

\* s.consumer.Consume returns once every ConsumeClaim call of the session has
\* returned (log.go 378-387). An error is returned by Start, and so is
\* ctx.Err() after the shutdown signal; main answers a non-nil error of Start
\* with os.Exit(1) (cmd/log-processor/main.go). Otherwise the loop calls
\* Consume again.
ConsumeReturns ==
    /\ procPc = "consume"
    /\ \A w \in ClaimedPartitions : pc[w] = "returned"
    /\ \E err \in {"nil", "error"} :
         IF err # "nil" \/ procCtxDone
           THEN /\ procPc' = "os.Exit(1)"
                /\ UNCHANGED <<batch, timer, pc, sessionDone, claimStart>>
           ELSE /\ procPc' = "consume"
                /\ NewSession
    /\ UNCHANGED <<delivered, logTimes, marked, flushes, logsTable, procCtxDone>>
    /\ UNCHANGED <<alertVars, peerVars, migrationVars>>

\* ================================================ a second evaluator instance
\* Another process running the same AlertService on the same database. Of its
\* evaluateRule calls the model keeps those that find the aggregate at or
\* above the threshold.

\* evaluateRule of the second instance: the aggregate query for an enabled rule.
PeerQueryRule ==
    /\ peerPc = "idle"
    /\ \E r \in RuleIDs, res \in QueryResults(alerts, FALSE) :
         /\ rules[r].Enabled
         /\ res.err = "nil"
         /\ Exceeds(res.result, rules[r].Threshold)
         /\ peerRule' = rules[r]
         /\ peerResult' = res.result
    /\ peerPc' = "get_alerts"
    /\ UNCHANGED alertVars
    /\ UNCHANGED <<assemblerVars, processVars, migrationVars>>

\* evaluateRule of the second instance: GetAlerts for the rule's active alerts.
PeerGetActiveAlerts ==
    /\ peerPc = "get_alerts"
    /\ IF NoActiveAlert(GetAlerts(alerts, peerRule.ID))
       THEN /\ peerPc' = "create"
            /\ UNCHANGED <<peerRule, peerResult>>
       ELSE /\ peerPc' = "idle"
            /\ peerRule' = NoRule
            /\ peerResult' = 0
    /\ UNCHANGED alertVars
    /\ UNCHANGED <<assemblerVars, processVars, migrationVars>>

\* evaluateRule of the second instance: alertRepo.CreateAlert.
PeerCreateAlert ==
    /\ peerPc = "create"
    /\ \E ok \in DbOutcomes(FALSE) :
         IF ok THEN alerts' = CreateAlert(alerts, peerRule, peerResult)
               ELSE UNCHANGED alerts
    /\ peerPc' = "idle"
    /\ peerRule' = NoRule
    /\ peerResult' = 0
    /\ UNCHANGED <<now, rules, evCtxDone, tickPending, evPc, evRules, evRule, evResult,
                   evErr, evActive, checkErr, evLog>>
    /\ UNCHANGED <<assemblerVars, processVars, migrationVars>>

\* =========================================================== migration runner

\* Runs of the migration runner.
MaxRuns == 3

\* LoadMigrations: the .sql files of scripts/migrations, sorted by ID, the ID
\* being the file name up to the first underscore.
MigrationFiles ==
    << [ID |-> "000", Filename |-> "000_create_database.sql", Content |-> "create database"],
       [ID |-> "001", Filename |-> "001_create_migrations_table.sql", Content |-> "create migrations"],
       [ID |-> "002", Filename |-> "002_initial_schema.sql", Content |-> "create schema"],
       [ID |-> "003", Filename |-> "003_next.sql", Content |-> "alter schema"] >>

\* The migrations whose application is never recorded.
Bootstrap == {"000", "001"}

\* generateChecksum: the SHA-256 of the content, in hex.
generateChecksum(content) == <<"sha256", content>>

\* GetAppliedMigrations: SELECT id FROM migrations.
GetAppliedMigrations(table) == {table[i].id : i \in 1..Len(table)}

\* How an ApplyMigration call can go.
ApplyOutcomes == {"begin_failed", "statement_failed", "record_failed", "commit_failed", "ok"}

\* Mutant: ApplyMigration records every migration, 000 and 001 included.
ApplyMigrationRecordsAll(table, executed, idx, outcome) ==
    LET migration == MigrationFiles[idx]
        ran == [executed EXCEPT ![idx] = @ + 1]
        row == [id |-> migration.ID, filename |-> migration.Filename,
                checksum |-> generateChecksum(migration.Content)]
    IN IF outcome \in {"begin_failed", "statement_failed"}
       THEN [table |-> table, executed |-> executed, err |-> TRUE]
       ELSE IF outcome = "record_failed" \/ migration.ID \in GetAppliedMigrations(table)
            \/ outcome = "commit_failed"
       THEN [table |-> table, executed |-> ran, err |-> TRUE]
       ELSE [table |-> Append(table, row), executed |-> ran, err |-> FALSE]

\* Mutant: a migration whose commit reports an error is recorded all the same.
ApplyMigrationKeepsRow(table, executed, idx, outcome) ==
    LET migration == MigrationFiles[idx]
        ran == [executed EXCEPT ![idx] = @ + 1]
        row == [id |-> migration.ID, filename |-> migration.Filename,
                checksum |-> generateChecksum(migration.Content)]
    IN IF outcome \in {"begin_failed", "statement_failed"}
       THEN [table |-> table, executed |-> executed, err |-> TRUE]
       ELSE IF migration.ID \in Bootstrap
       THEN [table |-> table, executed |-> ran, err |-> outcome = "commit_failed"]
       ELSE IF outcome = "record_failed" \/ migration.ID \in GetAppliedMigrations(table)
       THEN [table |-> table, executed |-> ran, err |-> TRUE]
       ELSE [table |-> Append(table, row), executed |-> ran, err |-> outcome = "commit_failed"]

\* ApplyMigration for MigrationFiles[idx]: begin, the statements, for an ID
\* other than 000 and 001 the INSERT INTO migrations (id is the primary key),
\* commit. An error leaves the table as it was.
ApplyMigration(table, executed, idx, outcome) ==
    LET migration == MigrationFiles[idx]
        ran == [executed EXCEPT ![idx] = @ + 1]
        row == [id |-> migration.ID, filename |-> migration.Filename,
                checksum |-> generateChecksum(migration.Content)]
    IN IF outcome \in {"begin_failed", "statement_failed"}
       THEN [table |-> table, executed |-> executed, err |-> TRUE]
       ELSE IF migration.ID \in Bootstrap
       THEN [table |-> table, executed |-> ran, err |-> outcome = "commit_failed"]
       ELSE IF outcome = "record_failed" \/ migration.ID \in GetAppliedMigrations(table)
            \/ outcome = "commit_failed"
       THEN [table |-> table, executed |-> ran, err |-> TRUE]
       ELSE [table |-> Append(table, row), executed |-> ran, err |-> FALSE]

\* RunMigrations up to its loop: LoadMigrations, and the applied set, which is
\* not read yet when the first file is 000 or 001.
StartRun ==
    /\ migPc # "loop"
    /\ migRuns < MaxRuns
    /\ migRuns' = migRuns + 1
    /\ \E ok \in BOOLEAN :
         IF MigrationFiles[1].ID \in Bootstrap
         THEN /\ migApplied' = {}
              /\ migPc' = "loop"
              /\ migIdx' = 1
         ELSE IF ok
         THEN /\ migApplied' = GetAppliedMigrations(migTable)
              /\ migPc' = "loop"
              /\ migIdx' = 1
         ELSE /\ migPc' = "error"
              /\ UNCHANGED <<migApplied, migIdx>>
    /\ UNCHANGED <<migTable, migExecuted>>
    /\ UNCHANGED <<assemblerVars, processVars, alertVars, peerVars>>

\* RunMigrations, one iteration of `for i, migration := range migrations`.
StepMigration ==
    /\ migPc = "loop"
    /\ migIdx <= Len(MigrationFiles)
    /\ \E getOk \in BOOLEAN, reconnectOk \in BOOLEAN, outcome \in ApplyOutcomes :
         LET migration == MigrationFiles[migIdx]
             res == ApplyMigration(migTable, migExecuted, migIdx, outcome)
             applied == IF migApplied = {} THEN GetAppliedMigrations(migTable)
                        ELSE migApplied
         IN IF migIdx - 1 <= 1 /\ migration.ID \in Bootstrap
            THEN /\ migTable' = res.table
                 /\ migExecuted' = res.executed
                 /\ UNCHANGED migApplied
                 /\ IF res.err \/ (migIdx - 1 = 0 /\ migration.ID = "000" /\ ~reconnectOk)
                    THEN migPc' = "error" /\ UNCHANGED migIdx
                    ELSE migIdx' = migIdx + 1 /\ UNCHANGED migPc
            ELSE IF migApplied = {} /\ ~getOk
            THEN /\ migPc' = "error"
                 /\ UNCHANGED <<migTable, migExecuted, migApplied, migIdx>>
            ELSE IF migration.ID \in applied
            THEN /\ migApplied' = applied
                 /\ migIdx' = migIdx + 1
                 /\ UNCHANGED <<migTable, migExecuted, migPc>>
            ELSE /\ migApplied' = applied
                 /\ migTable' = res.table
                 /\ migExecuted' = res.executed
                 /\ IF res.err
                    THEN migPc' = "error" /\ UNCHANGED migIdx
                    ELSE migIdx' = migIdx + 1 /\ UNCHANGED migPc
    /\ UNCHANGED migRuns
    /\ UNCHANGED <<assemblerVars, processVars, alertVars, peerVars>>

\* RunMigrations: the loop is exhausted, return nil.
EndRun ==
    /\ migPc = "loop"
    /\ migIdx > Len(MigrationFiles)
    /\ migPc' = "ok"
    /\ UNCHANGED <<migTable, migExecuted, migIdx, migApplied, migRuns>>
    /\ UNCHANGED <<assemblerVars, processVars, alertVars, peerVars>>

InitProcess ==
    /\ claimStart = [w \in Partitions |-> 0]
    /\ procCtxDone = FALSE
    /\ procPc = "consume"

InitPeer ==
    /\ peerPc = "idle"
    /\ peerRule = NoRule
    /\ peerResult = 0

InitMigration ==
    /\ migTable = <<>>
    /\ migExecuted = [i \in 1..Len(MigrationFiles) |-> 0]
    /\ migPc = "idle"
    /\ migIdx = 0
    /\ migApplied = {}
    /\ migRuns = 0

Init == InitAssembler /\ InitProcess /\ InitAlerts /\ InitPeer /\ InitMigration

NextAssembler == \E w \in ClaimedPartitions : ConsumeClaim(w)

SpecAssembler == Init /\ [][NextAssembler]_vars

\* The steps of the alert checker goroutine.
AlertChecker ==
    \/ StartCycle
    \/ FetchRules
    \/ EndCycle
    \/ RangeRule
    \/ QueryRule
    \/ GetActiveAlerts
    \/ CreateRuleAlert
    \/ ResolveRuleAlert
    \/ EndResolve

NextAlerts ==
    \/ AlertChecker
    \/ ApiResolveAlert
    \/ ApiAcknowledgeAlert
    \/ ApiUpdateAlertRule

SpecAlerts == Init /\ [][NextAlerts]_vars

\* The checker while the API edits rules.
NextRuleEdits == AlertChecker \/ ApiEditAlertRule

SpecRuleEdits == Init /\ [][NextRuleEdits]_vars

\* The checker, its ticker and the shutdown of the api-server.
NextChecker == AlertChecker \/ TickerFire \/ CancelChecker \/ StopChecker

SpecChecker == Init /\ [][NextChecker]_vars

\* The checker and the API's resolve requests over passing time.
NextResolve == AlertChecker \/ ApiResolveAlert \/ ClockTick

SpecResolve == Init /\ [][NextResolve]_vars

\* One partition worker over passing time, with batches flushed by size.
NextWindow ==
    \/ \E w \in ClaimedPartitions : ReceiveMessage(w) \/ FlushSize(w)
    \/ ClockTick

SpecWindow == Init /\ [][NextWindow]_vars

\* Two partition workers of one consumer-group session.
NextWorkers == \E w \in Partitions : ConsumeClaim(w)

SpecWorkers == Init /\ [][NextWorkers]_vars

\* One worker under a runtime that lets the timer fire and lets the worker run:
\* the batch timeout elapses, a ready timer case is taken, a flush that was
\* begun completes. Nothing is assumed about further messages or the session.
SpecTimerFair ==
    /\ SpecAssembler
    /\ \A w \in ClaimedPartitions :
         /\ WF_vars(TimerExpire(w))
         /\ WF_vars(TimerCase(w))
         /\ WF_vars(FlushTimer(w))
         /\ WF_vars(FlushSize(w))
         /\ WF_vars(FlushFinal(w))

\* The log processor process: the loop of Start around the sessions of one
\* partition worker.
NextProcessor ==
    \/ \E w \in ClaimedPartitions : ConsumeClaim(w)
    \/ ShutdownSignal
    \/ ConsumeReturns

SpecProcessor == Init /\ [][NextProcessor]_vars

\* The alert checker while operators acknowledge and resolve alerts.
NextAlertRequests == AlertChecker \/ ApiResolveAlert \/ ApiAcknowledgeAlert

SpecAlertRequests == Init /\ [][NextAlertRequests]_vars

\* The alert checker while the API enables and disables rules.
NextRuleToggles == AlertChecker \/ ApiUpdateAlertRule

SpecRuleToggles == Init /\ [][NextRuleToggles]_vars

\* The migration runner, run after run.
NextMigrations == StartRun \/ StepMigration \/ EndRun

SpecMigrations == Init /\ [][NextMigrations]_vars

\* The shutdown of the two long-running loops. StartAlertChecker runs in the
\* api-server process and LogProcessorService.Start in the log-processor
\* process; the two share no variable, so a behaviour follows one of them from
\* the start while the other stays as constructed. The runtime lets a busy
\* goroutine go on (a cycle or a flush that was begun completes, Consume
\* returns once its claims have) and select draws among its ready cases at
\* random, so a case that is ready again and again is taken.
ProcessorAtStart == InitAssembler /\ InitProcess

CheckerAtStart == InitAlerts

NextShutdown ==
    \/ CheckerAtStart /\ NextProcessor
    \/ ProcessorAtStart /\ NextChecker

SpecShutdown ==
    /\ Init /\ [][NextShutdown]_vars
    /\ WF_vars(ProcessorAtStart /\ AlertChecker)
    /\ SF_vars(ProcessorAtStart /\ StopChecker)
    /\ WF_vars(CheckerAtStart /\ ConsumeReturns)
    /\ \A w \in ClaimedPartitions :
         /\ WF_vars(CheckerAtStart /\ (FlushSize(w) \/ FlushTimer(w) \/ FlushFinal(w)))
         /\ SF_vars(CheckerAtStart /\ (DoneCase(w) \/ DoneCaseEmpty(w)))

\* Two evaluator instances on one database.
NextTwoEvaluators ==
    \/ AlertChecker
    \/ PeerQueryRule
    \/ PeerGetActiveAlerts
    \/ PeerCreateAlert

SpecTwoEvaluators == Init /\ [][NextTwoEvaluators]_vars

\* ================================================================== claims

\* The well-formed records worker w has received, in arrival order.
Received(w) ==
    LET idx == SelectSeq([i \in 1..Len(delivered[w]) |-> i], LAMBDA i : delivered[w][i])
    IN [k \in 1..Len(idx) |-> Record(w, idx[k] - 1)]

RECURSIVE ConcatRecs(_)
\* The batches of a flush history, concatenated.
ConcatRecs(fs) == IF fs = <<>> THEN <<>> ELSE Head(fs).recs \o ConcatRecs(Tail(fs))

\* The record of offset off on partition w was part of a flush that succeeded.
Flushed(w, off) ==
    \E i \in 1..Len(flushes[w]) :
        flushes[w][i].ok /\ Record(w, off) \in Range(flushes[w][i].recs)

\* C1: the offset of a well-formed record is marked only after a batch insert
\* containing the record has succeeded.
C1_MarkOnlyAfterFlush ==
    \A w \in ClaimedPartitions : \A off \in marked[w] :
        delivered[w][off + 1] => Flushed(w, off)

\* C2: after a failed size- or timer-triggered flush the records of the failed
\* batch are still buffered, or the next flush attempt contains all of them.
C2_FailedFlushKeepsBuffer ==
    \A w \in ClaimedPartitions : \A i \in 1..Len(flushes[w]) :
        (~flushes[w][i].ok /\ flushes[w][i].trigger # "final" /\ pc[w] # "returned")
            => IF i = Len(flushes[w])
               THEN Range(flushes[w][i].recs) \subseteq Range(batch[w])
               ELSE Range(flushes[w][i].recs) \subseteq Range(flushes[w][i + 1].recs)

\* C3: the final flush on cancellation carries the buffered records and they
\* end up in the logs table.
C3_FinalFlushPersists ==
    \A w \in ClaimedPartitions : \A i \in 1..Len(flushes[w]) :
        flushes[w][i].trigger = "final"
            => flushes[w][i].ok /\ Range(flushes[w][i].recs) \subseteq Range(logsTable)

\* No flush failed, and every timer-triggered flush came after the last
\* well-formed record received so far.
NoFailureNoEarlyTimer(w) ==
    \A i \in 1..Len(flushes[w]) :
        /\ flushes[w][i].ok
        /\ flushes[w][i].trigger = "timer"
             => \A j \in (flushes[w][i].at + 1)..Len(delivered[w]) : ~delivered[w][j]

\* C5: N records, no failed flush, the timer firing only after the last record:
\* once the buffer is empty there were ceil(N / BatchSize) batch inserts, each
\* but possibly the last of exactly BatchSize records, in arrival order.
C5_FlushCount ==
    \A w \in ClaimedPartitions :
        LET N == Len(Received(w))
            F == flushes[w]
        IN (batch[w] = <<>> /\ NoFailureNoEarlyTimer(w))
             => /\ Len(F) = (N + BatchSize - 1) \div BatchSize
                /\ \A i \in 1..(Len(F) - 1) : Len(F[i].recs) = BatchSize
                /\ ConcatRecs(F) = Received(w)

\* C5 witness: three or more records went out as a full batch followed by a
\* shorter one flushed by the timer.
C5_Witness ==
    \E w \in ClaimedPartitions :
        /\ batch[w] = <<>> /\ NoFailureNoEarlyTimer(w)
        /\ Len(flushes[w]) = 2
        /\ Len(flushes[w][1].recs) = BatchSize
        /\ flushes[w][2].trigger = "timer"
        /\ Len(flushes[w][2].recs) < BatchSize

\* C6: when the timer's tick is read with 0 < m < BatchSize records buffered,
\* exactly one flush follows, it carries exactly those m records, and the
\* buffer is empty after it.
C6_TimerFlush ==
    [][\A w \in ClaimedPartitions :
         /\ (pc[w] = "select" /\ timer[w] = "fired" /\ timer'[w] = "read")
               => /\ 0 < Len(batch[w]) /\ Len(batch[w]) < BatchSize
                  /\ pc'[w] = "flush_timer"
                  /\ batch'[w] = batch[w] /\ flushes'[w] = flushes[w]
         /\ (pc[w] = "flush_timer" /\ pc'[w] # "flush_timer")
               => /\ 0 < Len(batch[w]) /\ Len(batch[w]) < BatchSize
                  /\ Len(flushes'[w]) = Len(flushes[w]) + 1
                  /\ SubSeq(flushes'[w], 1, Len(flushes[w])) = flushes[w]
                  /\ flushes'[w][Len(flushes'[w])].recs = batch[w]
                  /\ batch'[w] = <<>>
                  /\ pc'[w] = "select"]_vars

\* C6 witness: a timer-triggered flush of fewer than BatchSize records has
\* happened and the buffer is empty.
C6_Witness ==
    \E w \in ClaimedPartitions :
        /\ flushes[w] # <<>>
        /\ flushes[w][Len(flushes[w])].trigger = "timer"
        /\ Len(flushes[w][Len(flushes[w])].recs) \in 1..(BatchSize - 1)
        /\ batch[w] = <<>>
        /\ pc[w] = "select"

\* No malformed message's record is in the buffer or in any batch insert.
NoMalformedBuffered(w) ==
    \A off \in 0..(Len(delivered[w]) - 1) :
        ~delivered[w][off + 1]
            => /\ Record(w, off) \notin Range(batch[w])
               /\ \A i \in 1..Len(flushes[w]) : Record(w, off) \notin Range(flushes[w][i].recs)

\* C7: a message that fails to deserialize never enters the buffer or a batch
\* insert; the step that reads it marks its offset, keeps the worker consuming
\* and leaves the buffer and the timer as they were.
C7_MalformedSkipped ==
    /\ [](\A w \in ClaimedPartitions : NoMalformedBuffered(w))
    /\ [][\A w \in ClaimedPartitions :
            (Len(delivered'[w]) = Len(delivered[w]) + 1 /\ ~delivered'[w][Len(delivered'[w])])
               => /\ marked'[w] = marked[w] \cup {Len(delivered[w])}
                  /\ batch'[w] = batch[w]
                  /\ timer'[w] = timer[w]
                  /\ pc'[w] = "select"
                  /\ flushes'[w] = flushes[w]
                  /\ logsTable' = logsTable]_vars

\* C7 witness: a malformed message was read while records were buffered, its
\* offset is marked and the buffer still holds the records.
C7_Witness ==
    \E w \in ClaimedPartitions :
        /\ Len(delivered[w]) >= 2
        /\ ~delivered[w][Len(delivered[w])]
        /\ (Len(delivered[w]) - 1) \in marked[w]
        /\ batch[w] # <<>>
        /\ pc[w] = "select"

\* C8: the batches passed to the batch insert so far, followed by the current
\* buffer, are the well-formed records received so far, in arrival order.
C8_OrderPreserved ==
    \A w \in ClaimedPartitions : ConcatRecs(flushes[w]) \o batch[w] = Received(w)

\* C8 witness: two or more batches went out, one of them failed, and a record
\* is buffered again.
C8_Witness ==
    \E w \in ClaimedPartitions :
        /\ Len(flushes[w]) >= 2
        /\ \E i \in 1..Len(flushes[w]) : ~flushes[w][i].ok
        /\ batch[w] # <<>>

\* C9: a batch insert that returned an error persisted none of its records,
\* one that returned success persisted all of them.
C9_AllOrNothing ==
    \A w \in ClaimedPartitions : \A i \in 1..Len(flushes[w]) :
        IF flushes[w][i].ok
        THEN Range(flushes[w][i].recs) \subseteq Range(logsTable)
        ELSE Range(flushes[w][i].recs) \cap Range(logsTable) = {}

\* C9 witness: with the session still live one batch insert failed and one
\* succeeded.
C9_Witness ==
    \E w \in ClaimedPartitions :
        /\ ~sessionDone[w]
        /\ \E i \in 1..Len(flushes[w]) : ~flushes[w][i].ok /\ flushes[w][i].recs # <<>>
        /\ \E i \in 1..Len(flushes[w]) : flushes[w][i].ok /\ flushes[w][i].recs # <<>>

\* The alerts of rule r with status active.
ActiveOf(r) == {i \in 1..Len(alerts) : alerts[i].RuleID = r /\ alerts[i].Status = "active"}

\* C4: every rule has at most one alert with status active.
C4_OneActivePerRule == \A r \in RuleIDs : Cardinality(ActiveOf(r)) <= 1

\* C4 witness: a rule's alert was acknowledged through the API and a later
\* cycle created a new active alert for the same rule.
C4_Witness ==
    \E i, j \in 1..Len(alerts) :
        /\ alerts[i].RuleID = alerts[j].RuleID
        /\ alerts[i].Status = "acknowledged"
        /\ alerts[j].Status = "active"

Created == alerts'[Len(alerts')]

\* evaluateRule leaves its create step.
CreateStep == evPc = "create" /\ evPc' = "range"

C12_ActiveAlertKept ==
    [][(/\ evPc = "get_alerts"
        /\ evPc' # "get_alerts"
        /\ Exceeds(evResult, evRule.Threshold)
        /\ ActiveOf(evRule.ID) # {})
          => alerts' = alerts /\ evPc' = "range"]_vars

\* C12 witness: evaluateRule has just found the active alert of rule 1 and left
\* it alone, although the rule's severity and threshold were edited after the
\* alert was created.
C12_Witness ==
    /\ evLog = <<LogEntry(1, "kept")>>
    /\ \E i \in ActiveOf(1) :
         /\ alerts[i].Severity # rules[1].Severity
         /\ alerts[i].Value < rules[1].Threshold

\* C13: with an aggregate below the threshold evaluateRule takes every active
\* alert of the rule into its resolve loop; each pass whose UPDATE succeeds
\* sets that alert, and no other, to resolved with resolved_at = now; the loop
\* adds no row; and when no UPDATE has failed, the rule has no active alert
\* left when evaluateRule returns.
C13_BelowThresholdResolves ==
    [][/\ (evPc = "get_alerts" /\ evPc' # "get_alerts" /\ ~Exceeds(evResult, evRule.Threshold))
          => \/ evErr' = "failed to check existing alerts" /\ alerts' = alerts
             \/ /\ evPc' = "resolve"
                /\ alerts' = alerts
                /\ {evActive'[k].ID : k \in 1..Len(evActive')} = ActiveOf(evRule.ID)
       /\ (evPc = "resolve" /\ evActive # <<>> /\ evActive' # evActive)
          => /\ evPc' = "resolve"
             /\ \/ alerts' = alerts /\ evLog'[Len(evLog')].what = "resolve_failed"
                \/ /\ evLog'[Len(evLog')].what = "resolved"
                   /\ alerts' = [i \in 1..Len(alerts) |->
                                   IF i = Head(evActive).ID
                                   THEN [alerts[i] EXCEPT !.Status = "resolved", !.ResolvedAt = now]
                                   ELSE alerts[i]]
                   /\ now > 0
       /\ (evPc = "resolve" /\ evPc' = "range")
          => /\ alerts' = alerts
             /\ (\A k \in 1..Len(evLog) : evLog[k].what # "resolve_failed")
                  => ActiveOf(evRule.ID) = {}]_vars

\* C13 witness: evaluateRule has just returned from resolving the one active
\* alert of rule 1; the alert is resolved with resolved_at set and the rule has
\* no active alert.
C13_Witness ==
    /\ evPc = "range"
    /\ evLog = <<LogEntry(1, "below"), LogEntry(1, "resolved")>>
    /\ ActiveOf(1) = {}
    /\ \E i \in 1..Len(alerts) :
         alerts[i].RuleID = 1 /\ alerts[i].Status = "resolved" /\ alerts[i].ResolvedAt > 0

\* The query step of evaluateRule has just logged `what`.
QueryLogged(what) ==
    /\ evPc = "query"
    /\ evLog' # evLog
    /\ evLog'[Len(evLog')] = LogEntry(evRule.ID, what)

\* C14: when the aggregate query yields no row (sql.ErrNoRows) or no value (a
\* NULL aggregate), evaluateRule returns from the query step: the alerts table
\* is unchanged and neither the create step nor the resolve loop is entered;
\* no row returns nil, no value returns the scan error.
C14_NoDataNoAction ==
    [][/\ QueryLogged("no_rows")
          => alerts' = alerts /\ evPc' = "range" /\ evErr' = "nil"
       /\ QueryLogged("null_value")
          => alerts' = alerts /\ evPc' = "range"
             /\ evErr' = "failed to execute alert query"]_vars

\* C14 witness: rule 1 has an active alert and its evaluation has just ended on
\* a query without data; the alert is still active.
C14_Witness ==
    /\ evPc = "range"
    /\ evLog \in {<<LogEntry(1, "no_rows")>>, <<LogEntry(1, "null_value")>>}
    /\ ActiveOf(1) # {}

\* evaluateRule returns to the loop of CheckAlertRules.
EvaluateReturns ==
    /\ evPc \in {"query", "get_alerts", "create", "resolve"}
    /\ evPc' \notin {"query", "get_alerts", "create", "resolve"}

\* C15: when evaluateRule returns, with an error or without, the loop of
\* CheckAlertRules goes on with the rules not yet ranged over; each of them is
\* taken in turn and, when enabled, evaluated; the loop is left only when the
\* list is exhausted, and CheckAlertRules then returns nil.
C15_FailureIsolation ==
    [][/\ EvaluateReturns
          => evPc' = "range" /\ evRules' = evRules /\ checkErr' = checkErr
       /\ (evPc = "range" /\ evPc' # "range")
          => \/ /\ evRules # <<>>
                /\ Head(evRules).Enabled
                /\ evPc' = "query"
                /\ evRule' = Head(evRules)
                /\ evRules' = Tail(evRules)
             \/ evRules = <<>> /\ evPc' = "wait" /\ checkErr' = "nil"
       /\ (evPc = "range" /\ evPc' = "range" /\ evRules' # evRules)
          => ~Head(evRules).Enabled /\ evRules' = Tail(evRules)]_vars

\* C15 witness: the evaluation of rule 1 has just failed, and the loop stands
\* before rule 2, which is enabled.
C15_Witness ==
    /\ evPc = "range"
    /\ evErr # "nil"
    /\ evLog \in {<<LogEntry(1, w)>> : w \in {"query_failed", "get_failed", "create_failed"}}
    /\ Len(evRules) = 1
    /\ evRules[1].ID = 2
    /\ evRules[1].Enabled

\* C16: once the context of StartAlertChecker is cancelled, no step of the
\* checker takes the ticker case and calls CheckAlertRules.
C16_NoCycleAfterCancel ==
    [][evCtxDone => ~(evPc = "wait" /\ evPc' = "fetch")]_vars

\* C17: a ResolveAlert on an alert that is already resolved leaves its row as
\* the first resolve left it (status resolved, resolved_at of the first
\* resolve), and changes no other alert.
C17_ResolveIdempotent ==
    [][\A i \in 1..Len(alerts) :
          alerts[i].Status = "resolved" => alerts'[i] = alerts[i]]_vars

\* A step of the alert API: the alerts table changes while the checker stands.
ApiAlertStep == alerts' # alerts /\ evPc' = evPc /\ evActive' = evActive

\* C18: an acknowledge or resolve request of the API adds no row, leaves every
\* row it changes with status acknowledged or resolved, and does not raise the
\* number of active alerts of any rule.
C18_ApiNeverActivates ==
    [][ApiAlertStep
          => /\ Len(alerts') = Len(alerts)
             /\ \A i \in 1..Len(alerts) :
                  alerts'[i] # alerts[i] => alerts'[i].Status \in {"acknowledged", "resolved"}
             /\ \A r \in RuleIDs : Cardinality(ActiveOf(r)') <= Cardinality(ActiveOf(r))]_vars

\* C18 witness: an alert that was resolved and then acknowledged through the
\* API, next to an active alert of the same rule created by a later cycle.
C18_Witness ==
    \E i, j \in 1..Len(alerts) :
        /\ alerts[i].Status = "acknowledged"
        /\ alerts[i].ResolvedAt > 0
        /\ alerts[j].RuleID = alerts[i].RuleID
        /\ alerts[j].Status = "active"
        /\ evPc \in {"query", "get_alerts", "resolve"}

\* C19: the rows a rule's aggregate is computed over are exactly the rows of
\* the logs table whose event timestamp is at or after the window start.
C19_WindowByEventTime ==
    QueryRows(logsTable, now)
        = {i \in 1..Len(logsTable) : TimesOf(logsTable[i]).Timestamp >= buildQuery(now)}

\* The locals of worker w's ConsumeClaim call, with the history of its flushes.
WorkerLocals(w) == <<batch[w], timer[w], pc[w], flushes[w]>>

\* C20: with two workers, every batch a worker flushes and its buffer hold
\* records of its own partition only; its flushed batches followed by its
\* buffer are the well-formed records of its own claim in arrival order, as
\* when it runs alone; and no step changes the locals of two workers.
C20_WorkersIndependent ==
    /\ [](\A w \in Partitions :
            /\ \A i \in 1..Len(flushes[w]) :
                 \A rec \in Range(flushes[w][i].recs) : rec.partition = w
            /\ \A rec \in Range(batch[w]) : rec.partition = w
            /\ ConcatRecs(flushes[w]) \o batch[w] = Received(w))
    /\ [][\A w, v \in Partitions :
            (w # v /\ WorkerLocals(w)' # WorkerLocals(w))
                => WorkerLocals(v)' = WorkerLocals(v)]_vars

\* C20 witness: both workers have flushed a batch into the logs table and both
\* hold a record in their buffers.
C20_Witness ==
    \A w \in Partitions :
        /\ \E i \in 1..Len(flushes[w]) : flushes[w][i].ok
        /\ \E i \in 1..Len(logsTable) : logsTable[i].partition = w
        /\ batch[w] # <<>>

\* C21: no failure after construction is fatal: a ConsumeClaim call ends only
\* because its session ended, never because of a failed flush or a malformed
\* record, and the process, once constructed, does not exit with an error.
C21_OnlyInitFailureFatal ==
    /\ [](procPc # "os.Exit(1)")
    /\ [][\A w \in Partitions :
            pc[w] # "returned" /\ pc'[w] = "returned" => sessionDone[w]]_vars

\* C22: cycles never overlap and rules are evaluated one at a time:
\* CheckAlertRules is entered only from the select of StartAlertChecker, so
\* after the previous call has returned; a tick that comes while a cycle runs
\* is only buffered; evaluateRule is entered for a rule only when no other
\* rule is under evaluation.
C22_NoOverlap ==
    [][/\ (evPc # "fetch" /\ evPc' = "fetch" => evPc = "wait" /\ evRule = NoRule)
       /\ (tickPending' /\ ~tickPending => evPc' = evPc /\ evRule' = evRule)
       /\ (evRule' # NoRule /\ evRule' # evRule => evRule = NoRule /\ evPc = "range")]_vars

\* A tick is waiting while the cycle is at its second rule.
C22_Witness ==
    /\ tickPending
    /\ evPc = "query"
    /\ evRule # NoRule
    /\ evRule.ID = 2

\* C23: nothing rejects a second active alert for a rule: in every reachable
\* state of two evaluator instances on one database, CreateAlert for any rule
\* adds one more active row for that rule, also when the rule has an active
\* alert already; so two instances that both read zero active alerts both
\* insert one.
C23_InsertNeverRejected ==
    \A r \in RuleIDs, v \in Aggregates(<<>>) :
        Len(GetAlerts(CreateAlert(alerts, rules[r], v), r)) = Len(GetAlerts(alerts, r)) + 1

\* Both instances read zero active alerts for the rule and both created one.
C23_Witness ==
    \E r \in RuleIDs :
        /\ Cardinality(ActiveOf(r)) = 2
        /\ peerPc = "idle"
        /\ evLog # <<>>
        /\ evLog[Len(evLog)] = LogEntry(r, "created")

\* C24: a cycle evaluates only rules whose enabled flag is true: whenever
\* evaluateRule is entered for a rule, that rule is enabled in alert_rules, and
\* the evaluator changes no alert of a rule that is disabled.
C24_OnlyEnabledRules ==
    [][/\ (evPc = "range" /\ evPc' = "query" => rules[evRule'.ID].Enabled)
       /\ (evPc \in {"create", "resolve"} /\ alerts' # alerts => rules[evRule.ID].Enabled)]_vars

\* C24 as it holds: the flag that counts is the one in the rule list the cycle
\* fetched. The list is the content of alert_rules at the fetch; a rule
\* disabled in it is skipped without a query and without a change to the
\* alerts; the evaluator creates and resolves alerts only for the rule under
\* evaluation, whose fetched flag is true.
C24_OnlyFetchedEnabledRules ==
    [][/\ (evPc = "fetch" /\ evPc' = "range" => evRules' = GetAlertRules(rules))
       /\ (evPc = "range" /\ evRules # <<>> /\ evRules' = Tail(evRules) =>
              IF Head(evRules).Enabled
              THEN evPc' = "query" /\ evRule' = Head(evRules)
              ELSE evPc' = "range" /\ evRule' = NoRule)
       /\ (evPc \notin {"create", "resolve"} => alerts' = alerts)
       /\ (evPc \in {"create", "resolve"} =>
              /\ evRule.Enabled
              /\ \A i \in 1..Len(alerts) : alerts[i].RuleID # evRule.ID => alerts'[i] = alerts[i])
      ]_vars

\* The cycle has just skipped rule 1, which was disabled while its alert was
\* active; the alert is still active.
C24_Witness ==
    /\ evPc = "range"
    /\ evRule = NoRule
    /\ evLog = <<>>
    /\ Len(evRules) = 1
    /\ ~rules[1].Enabled
    /\ ActiveOf(1) # {}

\* C25: the buffer is bounded: it never holds more than BatchSize records, and
\* it holds BatchSize records only inside the step that flushes them; at every
\* other point of ConsumeClaim it holds fewer, also after a failed flush.
C25_BufferBounded ==
    \A w \in Partitions :
        /\ Len(batch[w]) <= BatchSize
        /\ (Len(batch[w]) = BatchSize => pc[w] = "flush_size")

\* A size-triggered flush has failed, the worker is back at its select and has
\* buffered a later record.
C25_Witness ==
    /\ pc[0] = "select"
    /\ Len(batch[0]) = 1
    /\ \E i \in 1..Len(flushes[0]) :
         /\ flushes[0][i].trigger = "size"
         /\ ~flushes[0][i].ok
         /\ i = Len(flushes[0])

\* C26: an empty buffer is never flushed: no processBatch call carries zero
\* records; a timer expiry handled with an empty buffer only re-arms the timer,
\* and a worker that leaves on shutdown with an empty buffer issues no insert.
C26_NoEmptyFlush ==
    /\ [](\A w \in Partitions : \A i \in 1..Len(flushes[w]) : flushes[w][i].recs # <<>>)
    /\ [][\A w \in Partitions :
            pc[w] = "select" /\ batch[w] = <<>> =>
              /\ (timer[w] = "fired" /\ timer'[w] # "fired" /\ pc'[w] # "returned" =>
                    /\ timer'[w] = "armed"
                    /\ pc'[w] = "select"
                    /\ flushes' = flushes
                    /\ logsTable' = logsTable)
              /\ (pc'[w] = "returned" => flushes' = flushes /\ logsTable' = logsTable)]_vars

\* The worker got only a malformed message, its session ended and it returned
\* without any flush.
C26_Witness ==
    /\ pc[0] = "returned"
    /\ delivered[0] # <<>>
    /\ flushes[0] = <<>>
    /\ logsTable = <<>>

\* The batch passed to the latest processBatch call of the flush history fs.
LastFlushRecs(fs) == fs[Len(fs)].recs

\* C27: a ConsumeClaim call starts with an empty buffer and a freshly armed
\* timer and carries nothing over: the buffer holds only records received by
\* the running call; a call that ends with records buffered passes exactly
\* those to a final processBatch and is left with no buffer; every batch a
\* call flushes consists of records the same call received.
C27_ClaimsStartFresh ==
    /\ [](\A w \in Partitions :
            /\ \A i \in 1..Len(batch[w]) : batch[w][i].offset >= claimStart[w]
            /\ (pc[w] = "returned" => batch[w] = <<>>))
    /\ [][\A w \in Partitions :
            /\ (pc[w] = "returned" /\ pc'[w] # "returned" =>
                  /\ pc'[w] = "select"
                  /\ batch'[w] = <<>>
                  /\ timer'[w] = "armed"
                  /\ claimStart'[w] = Len(delivered[w]))
            /\ (pc[w] # "returned" /\ pc'[w] = "returned" /\ batch[w] # <<>> =>
                  /\ Len(flushes'[w]) = Len(flushes[w]) + 1
                  /\ LastFlushRecs(flushes'[w]) = batch[w])
            /\ (Len(flushes'[w]) > Len(flushes[w]) =>
                  \A i \in 1..Len(LastFlushRecs(flushes'[w])) :
                      LastFlushRecs(flushes'[w])[i].offset >= claimStart[w])]_vars

\* A first claim ended with a final flush, and a later claim of the partition
\* has flushed a batch of its own with a record still buffered.
C27_Witness ==
    /\ claimStart[0] > 0
    /\ batch[0] # <<>>
    /\ \E i, j \in 1..Len(flushes[0]) :
         /\ i < j
         /\ flushes[0][i].trigger = "final"
         /\ flushes[0][j].at > claimStart[0]

\* The rows of a migrations table with the given id.
RowsIn(table, id) == {i \in 1..Len(table) : table[i].id = id}

RowsOf(id) == RowsIn(migTable, id)

\* C28: the migrations table never holds a row for 000 or 001, and holds
\* exactly one row (id, filename, checksum of the content) for every other
\* migration that was applied successfully: no id has two rows, every row is
\* the one of its file, and an ApplyMigration call that succeeds for another ID
\* leaves exactly one row for it, while a call that fails leaves no new row.
C28_TrackingTable ==
    /\ [](/\ \A id \in Bootstrap : RowsOf(id) = {}
          /\ \A i \in 1..Len(MigrationFiles) :
               LET m == MigrationFiles[i] IN
               /\ Cardinality(RowsOf(m.ID)) <= 1
               /\ (migExecuted[i] = 0 => RowsOf(m.ID) = {})
               /\ \A k \in RowsOf(m.ID) :
                    migTable[k] = [id |-> m.ID, filename |-> m.Filename,
                                   checksum |-> generateChecksum(m.Content)])
    /\ [][migPc = "loop" /\ migIdx <= Len(MigrationFiles) =>
            LET m == MigrationFiles[migIdx] IN
            IF migIdx' = migIdx + 1 /\ migExecuted'[migIdx] = migExecuted[migIdx] + 1
            THEN m.ID \notin Bootstrap =>
                   /\ Cardinality(RowsIn(migTable', m.ID)) = 1
                   /\ Len(migTable') = Len(migTable) + 1
            ELSE migTable' = migTable]_vars

\* A second run has ended without error: 000 and 001 were executed twice and
\* have no row, 002 and 003 were executed once and have one row each.
C28_Witness ==
    /\ migPc = "ok"
    /\ migRuns = 2
    /\ migExecuted = <<2, 2, 1, 1>>
    /\ Len(migTable) = 2

\* C29: while the buffer is non-empty a deadline is pending: the timer is
\* armed, or its tick is waiting in timer.C, or the worker is inside the flush
\* the tick or the session's end has triggered; so buffered records reach a
\* flush attempt through the timer alone, with no further message and no
\* shutdown.
C29_DeadlinePending ==
    /\ [](\A w \in Partitions :
            batch[w] # <<>> =>
              \/ timer[w] \in {"armed", "fired"}
              \/ pc[w] \in {"flush_timer", "flush_final"})
    /\ \A w \in ClaimedPartitions : (batch[w] # <<>>) ~> (batch[w] = <<>>)

\* After a timer-triggered flush the worker has buffered a new record and the
\* timer is armed again.
C29_Witness ==
    /\ pc[0] = "select"
    /\ batch[0] # <<>>
    /\ timer[0] = "armed"
    /\ flushes[0] # <<>>
    /\ flushes[0][Len(flushes[0])].trigger = "timer"

\* The positions of ConsumeClaim inside a processBatch call.
FlushPcs == {"flush_size", "flush_timer", "flush_final"}

\* C30: the flushes of a worker are synchronous: while a processBatch call is
\* in flight the worker receives and marks no message, appends nothing and
\* reads no timer tick; the call ends in one step that records one flush of
\* exactly the buffer as it was when the call began, and only then does the
\* worker go back to its select or return.
C30_FlushSynchronous ==
    [][\A w \in Partitions :
         pc[w] \in FlushPcs =>
           /\ delivered'[w] = delivered[w]
           /\ marked'[w] = marked[w]
           /\ IF pc'[w] = pc[w]
              THEN /\ batch'[w] = batch[w]
                   /\ flushes'[w] = flushes[w]
                   /\ (timer[w] \in {"fired", "read"} => timer'[w] = timer[w])
              ELSE /\ pc'[w] \in {"select", "returned"}
                   /\ Len(flushes'[w]) = Len(flushes[w]) + 1
                   /\ LastFlushRecs(flushes'[w]) = batch[w]
                   /\ batch'[w] = <<>>]_vars

\* A flush is in flight after an earlier one has completed, and a timer tick
\* waits unread in timer.C.
C30_Witness ==
    /\ pc[0] = "flush_size"
    /\ timer[0] = "fired"
    /\ flushes[0] # <<>>
    /\ Len(batch[0]) = BatchSize

\* A step of the evaluation engine, as opposed to a request of the API.
EngineStep == evPc' # evPc \/ evActive' # evActive \/ evRules' # evRules

\* C31: the evaluation engine changes only alerts whose status is active: no
\* step of a cycle modifies a row that is acknowledged or resolved.
C31_EngineTouchesOnlyActive ==
    [][EngineStep =>
         \A i \in 1..Len(alerts) : alerts'[i] # alerts[i] => alerts[i].Status = "active"]_vars

\* The alerts of rule r that an operator has acknowledged.
AcknowledgedOf(r) ==
    {i \in 1..Len(alerts) : alerts[i].RuleID = r /\ alerts[i].Status = "acknowledged"}

\* C32: an acknowledged alert suppresses creation like an active one: the
\* engine inserts no alert for a rule that has an acknowledged alert.
C32_AcknowledgedSuppresses ==
    [][(CreateStep /\ Len(alerts') = Len(alerts) + 1)
          => AcknowledgedOf(evRule.ID) = {}]_vars

\* C32 as it holds: only an active alert suppresses creation. With the
\* aggregate at or above the threshold evaluateRule goes on to its create step
\* exactly when the rule has no active alert (unless reading the alerts
\* fails), whether or not the rule has an acknowledged one.
C32_OnlyActiveSuppresses ==
    [][(/\ evPc = "get_alerts"
        /\ evPc' # "get_alerts"
        /\ Exceeds(evResult, evRule.Threshold))
          => IF ActiveOf(evRule.ID) = {}
             THEN \/ evPc' = "create"
                  \/ evLog' = Append(evLog, LogEntry(evRule.ID, "get_failed"))
             ELSE evPc' = "range" /\ alerts' = alerts]_vars

\* The operator acknowledged the alert of rule 1 and the following cycle, with
\* the aggregate still at or above the threshold, has created a further one.
C32_Witness ==
    /\ evLog = <<LogEntry(1, "created")>>
    /\ AcknowledgedOf(1) # {}
    /\ ActiveOf(1) # {}
    /\ \A i \in 1..Len(alerts) : alerts[i].Status # "resolved"

\* C33: the status of an alert only moves forward, active -> acknowledged ->
\* resolved: no step takes an alert back to active, and a resolved alert keeps
\* its status and its acknowledged_at under every engine step and every
\* acknowledge or resolve request.
C33_LifecycleForward ==
    [][\A i \in 1..Len(alerts) :
         /\ (alerts[i].Status # "active" => alerts'[i].Status # "active")
         /\ (alerts[i].Status = "resolved" =>
               /\ alerts'[i].Status = "resolved"
               /\ alerts'[i].AcknowledgedAt = alerts[i].AcknowledgedAt)]_vars

\* C34: a failed ResolveAlert does not end the resolve loop: below the
\* threshold evaluateRule takes every active alert of the rule, calls
\* ResolveAlert for each of them in turn whether or not an earlier call
\* failed, and returns nil when the list is exhausted.
C34_ResolveLoopGoesOn ==
    [][/\ (evPc = "get_alerts" /\ evPc' = "resolve" =>
             evActive' = GetAlerts(alerts, evRule.ID))
       /\ (evPc = "resolve" /\ EngineStep =>
             IF evActive # <<>>
             THEN /\ evPc' = "resolve"
                  /\ evActive' = Tail(evActive)
                  /\ \/ alerts' = ResolveAlert(alerts, Head(evActive).ID, now)
                     \/ /\ alerts' = alerts
                        /\ evLog' = Append(evLog, LogEntry(evRule.ID, "resolve_failed"))
             ELSE /\ evPc' = "range"
                  /\ evErr' = "nil"
                  /\ alerts' = alerts)]_vars

\* Rule 1 had two active alerts and fell below its threshold: resolving the
\* first failed, the second was resolved all the same, and evaluateRule has
\* returned nil.
C34_Witness ==
    /\ evPc = "range"
    /\ evErr = "nil"
    /\ evLog = <<LogEntry(1, "below"), LogEntry(1, "resolve_failed"), LogEntry(1, "resolved")>>
    /\ Cardinality(ActiveOf(1)) = 1

\* C35: when GetAlertRules fails, CheckAlertRules returns the error at once:
\* no rule is evaluated and the alerts table is not touched in that cycle; the
\* checker is back at its select, from where the next tick starts a new cycle
\* as long as its context is live.
C35_FetchFailureEndsCycle ==
    /\ [][evPc = "fetch" /\ evPc' \notin {"fetch", "range"} =>
            /\ evPc' = "wait"
            /\ checkErr' = "failed to get alert rules"
            /\ alerts' = alerts
            /\ evRules' = <<>>
            /\ evRule' = NoRule]_vars
    /\ [](evPc \in {"fetch", "wait"} => evRules = <<>> /\ evRule = NoRule /\ evActive = <<>>)
    /\ [](evPc = "wait" /\ checkErr # "nil" /\ ~evCtxDone => ENABLED StartCycle)

\* A cycle has created an alert, and a later cycle has failed to fetch the
\* rules: the checker waits for the next tick with the alert as it was.
C35_Witness ==
    /\ evPc = "wait"
    /\ checkErr = "failed to get alert rules"
    /\ ~evCtxDone
    /\ ActiveOf(1) # {}

\* ---------------------------------------------------------------- C36
\* Claim C36: after the shutdown signal both loops terminate. Once its context
\* is cancelled StartAlertChecker eventually returns, and stays returned. Once
\* the context of Start is cancelled, Start eventually returns, and from the
\* cancellation on no claim is started again: the return of the current
\* Consume call is followed by the return of Start, never by a new session.
C36_LoopsTerminate ==
    /\ (evCtxDone ~> evPc = "stopped")
    /\ [][evPc = "stopped" => evPc' = "stopped" /\ alerts' = alerts]_vars
    /\ (procCtxDone ~> procPc = "os.Exit(1)")
    /\ [][procCtxDone =>
            /\ claimStart' = claimStart
            /\ \A w \in ClaimedPartitions : pc[w] = "returned" => pc'[w] = "returned"
            /\ (procPc' # procPc =>
                  /\ procPc' = "os.Exit(1)"
                  /\ \A w \in ClaimedPartitions : pc[w] = "returned")]_vars

\* The checker has returned after a cycle that began on a tick left in
\* ticker.C when the context was already cancelled.
C36_Witness ==
    /\ evPc = "stopped"
    /\ evCtxDone
    /\ checkErr = "failed to get alert rules"
    /\ alerts # <<>>

\* ---------------------------------------------------------------- C37
\* A step of the loop of RunMigrations, and the step that ends the run with an
\* error.
LoopStep == migPc = "loop" /\ (migIdx' # migIdx \/ migPc' # migPc)

FailStep == migPc = "loop" /\ migPc' = "error"

\* Claim C37: RunMigrations stops at the first failure. The failing step adds
\* no row to the tracking table; after it nothing is executed or recorded
\* until a new run begins; and a run that comes to a migration other than 000
\* and 001 that has no row never passes over it: its statements are executed
\* again or the run fails there.
C37_StopsAtFirstFailure ==
    /\ [][FailStep => migTable' = migTable /\ migIdx' = migIdx]_vars
    /\ [][migPc = "error" =>
            /\ migTable' = migTable
            /\ migExecuted' = migExecuted
            /\ (migPc' # "error" => migPc' = "loop" /\ migIdx' = 1 /\ migRuns' = migRuns + 1)]_vars
    /\ [][(/\ LoopStep
           /\ migIdx <= Len(MigrationFiles)
           /\ RowsIn(migTable, MigrationFiles[migIdx].ID) = {})
            => \/ migPc' = "error"
               \/ migExecuted' = [migExecuted EXCEPT ![migIdx] = @ + 1]]_vars

\* The second run has applied and recorded 002, whose statements ran in the
\* first run too, where recording it failed.
C37_Witness ==
    /\ migRuns = 2
    /\ migPc = "ok"
    /\ migExecuted[3] = 2
    /\ RowsIn(migTable, "002") # {}
    /\ RowsIn(migTable, "003") # {}

\* ---------------------------------------------------------------- C38
\* Claim C38: a run passes over every migration that has a row in the tracking
\* table, so the statements of a recorded migration have been executed exactly
\* once over all runs, while a run that comes to 000 or 001 executes it again
\* whatever earlier runs did.
C38_RecordedRunOnce ==
    /\ [][(/\ LoopStep
           /\ migIdx <= Len(MigrationFiles)
           /\ RowsIn(migTable, MigrationFiles[migIdx].ID) # {})
            => /\ migExecuted' = migExecuted
               /\ migTable' = migTable]_vars
    /\ [](\A i \in 1..Len(MigrationFiles) :
            RowsIn(migTable, MigrationFiles[i].ID) # {} => migExecuted[i] = 1)
    /\ [][(/\ LoopStep
           /\ migIdx <= Len(MigrationFiles)
           /\ MigrationFiles[migIdx].ID \in Bootstrap)
            => \/ migPc' = "error"
               \/ migExecuted' = [migExecuted EXCEPT ![migIdx] = @ + 1]]_vars

====
